---- MODULE Spec2Model ----
(***************************************************************************)
(* Model of port-kics.py: one run of main().  The run reads a KICS report, *)
(* turns every query record into a "kicsScan" entity, builds one "service" *)
(* entity that relates the repository to the query identifiers, and        *)
(* upserts all of them to the Port API, the findings through               *)
(* retry_with_exponential_backoff.                                         *)
(*                                                                         *)
(* The remote service and the HTTP layer are the environment: every        *)
(* request that is sent is answered by one of                              *)
(*   "ok"    a 2xx response,                                               *)
(*   "err"   a response carrying an error status (4xx, 429, 5xx),          *)
(*   "raise" an exception raised by requests.post (no response at all).    *)
(***************************************************************************)
EXTENDS Integers, Sequences, FiniteSets, TLC

VARIABLES
    pc,              \* statement of main() (or of the retry helper) to run next
    error,           \* where the exception that ended the run came from
    argv,            \* the command line: sys.argv[1]
    env,             \* value of GITHUB_REPOSITORY
    file,            \* the file at the path given on the command line
    access_token,    \* main: access_token
    repo_name,       \* main: repo_name
    results,         \* main: results
    service_entity,  \* main: service_entity
    qi,              \* main: position of the for loop in results
    query,           \* retry_with_exponential_backoff: query
    attempt,         \* retry_with_exponential_backoff: attempt
    delay,           \* retry_with_exponential_backoff: delay
    result,          \* retry_with_exponential_backoff: result
    inflight,        \* requests sent and not yet answered
    sent,            \* history: every request sent, in order
    trace,           \* history: the steps of the run, in order
    stdout,          \* history: what print() wrote
    svcOutcome,      \* history: how the service entity's request was answered
    rstatus,         \* history: state of the current call of the retry helper
    calls,           \* history: make_api_request calls of that call
    outcomes,        \* history: how each of them ended
    pauses           \* history: the sleeps of that call

vars == <<pc, error, argv, env, file, access_token, repo_name, results,
          service_entity, qi, query, attempt, delay, result, inflight, sent,
          trace, stdout, svcOutcome, rstatus, calls, outcomes, pauses>>

(***************************************************************************)
(* Program constants.                                                      *)
(***************************************************************************)
base_delay == 1
max_retries == 5
max_delay == 32

(***************************************************************************)
(* Bound of the model: the longest report.                                 *)
(***************************************************************************)
MaxQueries == 2

Min(a, b) == IF a <= b THEN a ELSE b

RECURSIVE Pow2(_)
Pow2(n) == IF n <= 0 THEN 1 ELSE 2 * Pow2(n - 1)

(***************************************************************************)
(* The inputs of a run.                                                    *)
(***************************************************************************)
\* A query record of the report is a JSON object: a function from its keys.
RecordQ1 ==
    [query_id |-> "Q1", query_name |-> "T1", category |-> "C",
     cloud_provider |-> "aws", description |-> "D", files |-> <<"a.tf">>,
     severity |-> "HIGH", platform |-> "Terraform", url |-> "https://docs/Q1"]

RecordQ2 ==
    [query_id |-> "Q2", query_name |-> "T2", category |-> "C",
     cloud_provider |-> "gcp", description |-> "E", files |-> <<"b.tf", "c.tf">>,
     severity |-> "LOW", platform |-> "Terraform"]

\* a record without the key "severity"
RecordBad ==
    [query_id |-> "Q3", query_name |-> "T3", category |-> "C",
     cloud_provider |-> "aws", description |-> "F", files |-> <<>>,
     platform |-> "Terraform"]

QueryRecords == {RecordQ1, RecordQ2, RecordBad}

QueryLists == UNION {[1..k -> QueryRecords] : k \in 0..MaxQueries}

\* The file: absent, not JSON, or a JSON object with the given top-level keys.
Files ==
    {[kind |-> "absent", keys |-> {}, queries |-> <<>>],
     [kind |-> "malformed", keys |-> {}, queries |-> <<>>],
     [kind |-> "json", keys |-> {"kics_version"}, queries |-> <<>>]}
    \cup {[kind |-> "json", keys |-> {"kics_version", "queries"}, queries |-> qs] :
            qs \in QueryLists}

\* sys.argv: no argument at all, an empty argument, or a path
Argvs == {"missing", "empty", "path"}

\* GITHUB_REPOSITORY: unset, or a string, written as its pieces around "/"
Unset == <<"<unset>">>
EnvValues ==
    {Unset, <<"org", "/", "myrepo">>, <<"myrepo">>, <<"org", "/", "team", "/", "repo-a">>}

HttpOutcomes == {"ok", "err", "raise"}

(***************************************************************************)
(* get_access_token                                                        *)
(***************************************************************************)
\* token_response.json()['accessToken']: only a 2xx answer carries the token
TokenResponseHasToken(outcome) == outcome = "ok"

(***************************************************************************)
(* main: the repository name                                               *)
(***************************************************************************)
Getenv(value, default) == IF value = Unset THEN default ELSE value

RECURSIVE LastSlash(_, _)
LastSlash(s, i) ==
    IF i = 0 THEN 0
    ELSE IF s[i] = "/" THEN i
    ELSE LastSlash(s, i - 1)

\* full_repo_name.split("/")[-1]: what follows the last "/", "" if nothing does
SplitLast(s) ==
    LET k == LastSlash(s, Len(s))
    IN  IF k = Len(s) THEN "" ELSE s[Len(s)]

(***************************************************************************)
(* parse_kics_results                                                      *)
(***************************************************************************)
RequiredKeys ==
    {"query_id", "query_name", "category", "cloud_provider", "description",
     "files", "severity", "platform"}

\* variant: the record's own url wins when it has one
FindingEntity_RecordUrl(q, repo) ==
    [identifier |-> q["query_id"],
     title      |-> q["query_name"],
     blueprint  |-> "kicsScan",
     properties |->
        [category       |-> q["category"],
         cloud_provider |-> q["cloud_provider"],
         description    |-> q["description"],
         files          |-> q["files"],
         severity       |-> q["severity"],
         platform       |-> q["platform"],
         url            |-> IF "url" \in DOMAIN q THEN q["url"] ELSE repo]]

FindingEntity(q, repo) ==
    [identifier |-> q["query_id"],
     title      |-> q["query_name"],
     blueprint  |-> "kicsScan",
     properties |->
        [category       |-> q["category"],
         cloud_provider |-> q["cloud_provider"],
         description    |-> q["description"],
         files          |-> q["files"],
         severity       |-> q["severity"],
         platform       |-> q["platform"],
         url            |-> repo]]

\* the for loop: stops with KeyError at the first record that lacks a key
RECURSIVE ParseLoop(_, _, _, _)
ParseLoop(queries, i, entities, repo) ==
    IF i > Len(queries) THEN [exc |-> "none", entities |-> entities]
    ELSE IF ~(RequiredKeys \subseteq DOMAIN queries[i])
         THEN [exc |-> "KeyError", entities |-> entities]
         ELSE ParseLoop(queries, i + 1, Append(entities, FindingEntity(queries[i], repo)), repo)

\* the body of the try statement
ParseTry(f, repo) ==
    IF f.kind = "absent" THEN [exc |-> "FileNotFoundError", entities |-> <<>>]
    ELSE IF f.kind = "malformed" THEN [exc |-> "JSONDecodeError", entities |-> <<>>]
    ELSE IF "queries" \notin f.keys THEN [exc |-> "KeyError", entities |-> <<>>]
    ELSE ParseLoop(f.queries, 1, <<>>, repo)

\* variant: a handler for decoding errors only
CaughtByExceptException_Narrow(exc) == exc \in {"FileNotFoundError", "JSONDecodeError"}

\* except Exception: the exceptions that clause catches
CaughtByExceptException(exc) ==
    exc \in {"FileNotFoundError", "JSONDecodeError", "KeyError", "TypeError"}

\* the whole function: what it returns, prints and lets escape
parse_kics_results(f, repo) ==
    LET t == ParseTry(f, repo)
    IN  IF t.exc = "none"
        THEN [entities |-> t.entities, printed |-> <<>>, raised |-> FALSE]
        ELSE IF t.exc = "FileNotFoundError"
        THEN [entities |-> t.entities, printed |-> <<"file not found">>, raised |-> FALSE]
        ELSE IF CaughtByExceptException(t.exc)
        THEN [entities |-> t.entities, printed |-> <<"error parsing file">>, raised |-> FALSE]
        ELSE [entities |-> t.entities, printed |-> <<>>, raised |-> TRUE]

(***************************************************************************)
(* create_service_entity and the identifiers handed to it                  *)
(***************************************************************************)
\* variant: the titles instead of the identifiers
QueryIds_Titles(rs) == [i \in 1..Len(rs) |-> rs[i].title]

QueryIds(rs) == [i \in 1..Len(rs) |-> rs[i].identifier]

create_service_entity(repo, query_ids) ==
    [identifier |-> repo,
     blueprint  |-> "service",
     relations  |-> [kicsScan |-> query_ids]]

\* value of a variable that has not been assigned yet
NoEntity == [identifier |-> "", blueprint |-> "", relations |-> [kicsScan |-> <<>>]]

(***************************************************************************)
(* The upsert request                                                      *)
(***************************************************************************)
\* the path of the URL both make_api_request and main build
UpsertPath(entity) == <<"blueprints", entity.identifier, "entities">>

UpsertParams == {"upsert=true", "merge=true", "create_missing_related_entities=true"}

Headers(token) == [Authorization |-> <<"Bearer", token>>]

UpsertRequest(kind, idx, entity, token) ==
    [kind |-> kind, idx |-> idx, method |-> "POST", path |-> UpsertPath(entity),
     params |-> UpsertParams, body |-> entity, headers |-> Headers(token)]

\* requests.post raises only when the HTTP layer does; a status is not looked at
PostRaises(outcome) == outcome = "raise"

\* make_api_request: the call raises exactly when requests.post does
MakeApiRequestRaises(outcome) == PostRaises(outcome)

\* make_api_request ends with `pass`: whatever the response, it returns None
MakeApiRequestReturn(outcome) == "None"

(***************************************************************************)
(* retry_with_exponential_backoff                                          *)
(***************************************************************************)
\* variant: the ceiling reached one attempt early
ShouldRaise_Early(a) == a >= max_retries - 1

\* variant: the exponent counted from 0, so that the first pause is the base delay
SleepTime_FromBase(d, a) == Min(d * Pow2(a - 1), max_delay)

WhileGuard(a) == a < max_retries

ShouldRaise(a) == a >= max_retries

SleepTime(d, a) == Min(d * Pow2(a), max_delay)

(***************************************************************************)
(* main: the order of its statements                                       *)
(***************************************************************************)
\* variant: the parser and the builder run before the token is fetched
MainNext_ParseFirst(stmt) ==
    CASE stmt = "args"  -> "repo"
      [] stmt = "repo"  -> "parse"
      [] stmt = "parse" -> "build"
      [] stmt = "build" -> "token"
      [] stmt = "token" -> "svc"
      [] stmt = "svc"   -> "loop"

MainNext(stmt) ==
    CASE stmt = "args"  -> "token"
      [] stmt = "token" -> "repo"
      [] stmt = "repo"  -> "parse"
      [] stmt = "parse" -> "build"
      [] stmt = "build" -> "svc"
      [] stmt = "svc"   -> "loop"

\* variant: every other element
NextQuery_Skip(i) == i + 2

\* the for loop over results: the element after the i-th
NextQuery(i) == i + 1

(***************************************************************************)
(* The start of a run.                                                     *)
(***************************************************************************)
Init ==
    /\ argv \in Argvs
    /\ env \in EnvValues
    /\ file \in Files
    /\ pc = "args"
    /\ error = "none"
    /\ access_token = ""
    /\ repo_name = ""
    /\ results = <<>>
    /\ service_entity = NoEntity
    /\ qi = 0
    /\ query = NoEntity
    /\ attempt = 0
    /\ delay = base_delay
    /\ result = "<unset>"
    /\ inflight = <<>>
    /\ sent = <<>>
    /\ trace = <<>>
    /\ stdout = <<>>
    /\ svcOutcome = "none"
    /\ rstatus = "idle"
    /\ calls = 0
    /\ outcomes = <<>>
    /\ pauses = <<>>

retryVars == <<query, attempt, delay, result, rstatus, calls, outcomes, pauses>>
inputVars == <<argv, env, file>>

(***************************************************************************)
(* main, lines 127-129: the argument.  sys.argv[1] raises IndexError when  *)
(* there is no argument, and an empty one raises ValueError.               *)
(***************************************************************************)
CheckArgs ==
    /\ pc = "args"
    /\ IF argv = "path"
       THEN /\ pc' = MainNext("args")
            /\ error' = error
       ELSE /\ pc' = "error"
            /\ error' = "argv"
    /\ trace' = Append(trace, "args")
    /\ UNCHANGED <<inputVars, access_token, repo_name, results, service_entity,
                   qi, retryVars, inflight, sent, stdout, svcOutcome>>

(***************************************************************************)
(* get_access_token: one POST, then the token is read from the answer.     *)
(***************************************************************************)
TokenRequest ==
    [kind |-> "token", idx |-> 0, method |-> "POST", path |-> <<"auth", "access_token">>,
     params |-> {}, body |-> [clientId |-> "PORT_CLIENT_ID", clientSecret |-> "PORT_CLIENT_SECRET"],
     headers |-> <<>>]

GetAccessTokenSend ==
    /\ pc = "token"
    /\ inflight = <<>>
    /\ inflight' = <<TokenRequest>>
    /\ sent' = Append(sent, TokenRequest)
    /\ trace' = Append(trace, "token_request")
    /\ UNCHANGED <<pc, error, inputVars, access_token, repo_name, results,
                   service_entity, qi, retryVars, stdout, svcOutcome>>

GetAccessTokenReturn ==
    /\ pc = "token"
    /\ inflight # <<>>
    /\ inflight' = <<>>
    /\ \E outcome \in HttpOutcomes :
         IF PostRaises(outcome)
         THEN /\ pc' = "error"
              /\ error' = "auth"
              /\ UNCHANGED <<access_token, stdout>>
         ELSE IF ~TokenResponseHasToken(outcome)
         THEN /\ pc' = "error"
              /\ error' = "auth"
              /\ stdout' = Append(stdout, <<"token response", outcome>>)
              /\ UNCHANGED access_token
         ELSE /\ pc' = MainNext("token")
              /\ error' = error
              /\ stdout' = Append(stdout, <<"token response", outcome>>)
              /\ access_token' = "accessToken"
    /\ UNCHANGED <<inputVars, repo_name, results, service_entity, qi, retryVars,
                   sent, trace, svcOutcome>>

(***************************************************************************)
(* main, lines 138-139                                                     *)
(***************************************************************************)
RepoName ==
    /\ pc = "repo"
    /\ repo_name' = SplitLast(Getenv(env, <<"org", "/", "default-repo">>))
    /\ pc' = MainNext("repo")
    /\ UNCHANGED <<error, inputVars, access_token, results, service_entity, qi,
                   retryVars, inflight, sent, trace, stdout, svcOutcome>>

(***************************************************************************)
(* main, line 142                                                          *)
(***************************************************************************)
Parse ==
    /\ pc = "parse"
    /\ LET r == parse_kics_results(file, repo_name)
       IN  /\ stdout' = stdout \o r.printed
           /\ IF r.raised
              THEN /\ pc' = "error"
                   /\ error' = "parse"
                   /\ results' = results
              ELSE /\ pc' = MainNext("parse")
                   /\ error' = error
                   /\ results' = r.entities
    /\ trace' = Append(trace, "parse")
    /\ UNCHANGED <<inputVars, access_token, repo_name, service_entity, qi,
                   retryVars, inflight, sent, svcOutcome>>

(***************************************************************************)
(* main, lines 145-148                                                     *)
(***************************************************************************)
Build ==
    /\ pc = "build"
    /\ service_entity' = create_service_entity(repo_name, QueryIds(results))
    /\ pc' = MainNext("build")
    /\ trace' = Append(trace, "build")
    /\ UNCHANGED <<error, inputVars, access_token, repo_name, results, qi,
                   retryVars, inflight, sent, stdout, svcOutcome>>

(***************************************************************************)
(* main, line 150: the service entity is posted directly.  The response is *)
(* assigned and never read; an exception of requests.post is not caught.   *)
(***************************************************************************)
\* variant: an error status raises as well
ServiceUpsertRaises_Checked(outcome) == outcome \in {"err", "raise"}

ServiceUpsertRaises(outcome) == PostRaises(outcome)

ServiceUpsertSend ==
    /\ pc = "svc"
    /\ inflight = <<>>
    /\ LET req == UpsertRequest("service", 0, service_entity, access_token)
       IN  /\ inflight' = <<req>>
           /\ sent' = Append(sent, req)
    /\ trace' = Append(trace, "service_request")
    /\ UNCHANGED <<pc, error, inputVars, access_token, repo_name, results,
                   service_entity, qi, retryVars, stdout, svcOutcome>>

ServiceUpsertReturn ==
    /\ pc = "svc"
    /\ inflight # <<>>
    /\ inflight' = <<>>
    /\ \E outcome \in HttpOutcomes :
         /\ svcOutcome' = outcome
         /\ IF ServiceUpsertRaises(outcome)
            THEN /\ pc' = "error"
                 /\ error' = "svc"
            ELSE /\ pc' = MainNext("svc")
                 /\ error' = error
    /\ UNCHANGED <<inputVars, access_token, repo_name, results, service_entity,
                   qi, retryVars, sent, trace, stdout>>

(***************************************************************************)
(* main, lines 153-154: the for loop; each element enters the retry helper *)
(* (lines 17-18).                                                          *)
(***************************************************************************)
LoopNext ==
    /\ pc = "loop"
    /\ LET n == NextQuery(qi)
       IN  IF n > Len(results)
           THEN /\ pc' = "done"
                /\ UNCHANGED <<qi, retryVars>>
           ELSE /\ pc' = "retry_while"
                /\ qi' = n
                /\ query' = results[n]
                /\ attempt' = 0
                /\ delay' = base_delay
                /\ result' = "<unset>"
                /\ rstatus' = "running"
                /\ calls' = 0
                /\ outcomes' = <<>>
                /\ pauses' = <<>>
    /\ UNCHANGED <<error, inputVars, access_token, repo_name, results,
                   service_entity, inflight, sent, trace, stdout, svcOutcome>>

(***************************************************************************)
(* retry_with_exponential_backoff, lines 20-22: the loop test and the call *)
(* of make_api_request; line 31 when the test fails.                       *)
(***************************************************************************)
RetryCall ==
    /\ pc = "retry_while"
    /\ inflight = <<>>
    /\ IF WhileGuard(attempt)
       THEN LET req == UpsertRequest("finding", qi, query, access_token)
            IN  /\ inflight' = <<req>>
                /\ sent' = Append(sent, req)
                /\ trace' = Append(trace, "finding_request")
                /\ calls' = calls + 1
                /\ pc' = "retry_wait"
                /\ UNCHANGED <<error, rstatus>>
       ELSE /\ pc' = "error"
            /\ error' = "retry"
            /\ rstatus' = "raised"
            /\ UNCHANGED <<inflight, sent, trace, calls>>
    /\ UNCHANGED <<inputVars, access_token, repo_name, results, service_entity,
                   qi, query, attempt, delay, result, outcomes, pauses, stdout,
                   svcOutcome>>

(***************************************************************************)
(* lines 22-30: the call returns, or raises and is handled.                *)
(***************************************************************************)
RetryReturn ==
    /\ pc = "retry_wait"
    /\ inflight # <<>>
    /\ inflight' = <<>>
    /\ \E outcome \in HttpOutcomes :
         IF ~MakeApiRequestRaises(outcome)
         THEN /\ outcomes' = Append(outcomes, [http |-> outcome, ret |-> MakeApiRequestReturn(outcome)])
              /\ result' = MakeApiRequestReturn(outcome)
              /\ rstatus' = "returned"
              /\ pc' = "loop"
              /\ UNCHANGED <<error, attempt, pauses, stdout>>
         ELSE /\ outcomes' = Append(outcomes, [http |-> outcome, ret |-> "<raised>"])
              /\ attempt' = attempt + 1
              /\ result' = result
              /\ IF ShouldRaise(attempt + 1)
                 THEN /\ pc' = "error"
                      /\ error' = "retry"
                      /\ rstatus' = "raised"
                      /\ UNCHANGED <<pauses, stdout>>
                 ELSE /\ pc' = "retry_sleep"
                      /\ pauses' = Append(pauses, SleepTime(delay, attempt + 1))
                      /\ stdout' = Append(stdout, <<"attempt failed", attempt + 1,
                                                    SleepTime(delay, attempt + 1)>>)
                      /\ UNCHANGED <<error, rstatus>>
    /\ UNCHANGED <<inputVars, access_token, repo_name, results, service_entity,
                   qi, query, delay, calls, sent, trace, svcOutcome>>

\* line 30: time.sleep returns
RetryWake ==
    /\ pc = "retry_sleep"
    /\ pc' = "retry_while"
    /\ UNCHANGED <<error, inputVars, access_token, repo_name, results,
                   service_entity, qi, retryVars, inflight, sent, trace, stdout,
                   svcOutcome>>

Next ==
    \/ CheckArgs
    \/ GetAccessTokenSend
    \/ GetAccessTokenReturn
    \/ RepoName
    \/ Parse
    \/ Build
    \/ ServiceUpsertSend
    \/ ServiceUpsertReturn
    \/ LoopNext
    \/ RetryCall
    \/ RetryReturn
    \/ RetryWake

Spec == Init /\ [][Next]_vars

TypeOK ==
    /\ pc \in {"args", "token", "repo", "parse", "build", "svc", "loop",
               "retry_while", "retry_wait", "retry_sleep", "done", "error"}
    /\ Len(inflight) <= 1
    /\ attempt \in 0..max_retries

(***************************************************************************)
(* Vocabulary of the properties.                                           *)
(***************************************************************************)
Did(ev) == \E i \in 1..Len(trace) : trace[i] = ev

Pos(ev) == {i \in 1..Len(trace) : trace[i] = ev}

\* every ev1 comes before every ev2, and ev2 does not happen without ev1
Before(ev1, ev2) ==
    /\ \A i \in Pos(ev1), j \in Pos(ev2) : i < j
    /\ Pos(ev2) # {} => Pos(ev1) # {}

IsUpsert(r) == r.kind \in {"service", "finding"}

ServiceRequests == {i \in 1..Len(sent) : sent[i].kind = "service"}

FindingRequests == {i \in 1..Len(sent) : sent[i].kind = "finding"}

AllRaised == \A i \in 1..Len(outcomes) : outcomes[i].http = "raise"

WellFormed(f) ==
    /\ f.kind = "json"
    /\ "queries" \in f.keys
    /\ \A i \in 1..Len(f.queries) : RequiredKeys \subseteq DOMAIN f.queries[i]

\* index of the first record that lacks a required key, 0 if there is none
FirstBad(f) ==
    LET bad == {i \in 1..Len(f.queries) : ~(RequiredKeys \subseteq DOMAIN f.queries[i])}
    IN  IF bad = {} THEN 0 ELSE CHOOSE i \in bad : \A j \in bad : i <= j

\* e carries the fields of record rec, and the repository name as its url
IsFindingOf(e, rec, repo) ==
    /\ e.identifier = rec["query_id"]
    /\ e.title = rec["query_name"]
    /\ e.blueprint = "kicsScan"
    /\ e.properties.category = rec["category"]
    /\ e.properties.cloud_provider = rec["cloud_provider"]
    /\ e.properties.description = rec["description"]
    /\ e.properties.files = rec["files"]
    /\ e.properties.severity = rec["severity"]
    /\ e.properties.platform = rec["platform"]
    /\ e.properties.url = repo

(***************************************************************************)
(* C1: when every call of the upsert function raises, the retry helper     *)
(* makes exactly 5 calls and then raises; it never makes a 6th, and no     *)
(* pause is longer than 32.                                                *)
(***************************************************************************)
C1_CeilingAfterFiveCalls ==
    /\ calls <= 5
    /\ \A i \in 1..Len(pauses) : pauses[i] <= 32
    /\ (rstatus # "idle" /\ AllRaised) =>
         /\ Len(outcomes) = 5 => (rstatus = "raised" /\ pc = "error" /\ calls = 5)
         /\ rstatus = "raised" => (Len(outcomes) = 5 /\ calls = 5 /\ inflight = <<>>)

C1_Witness ==
    /\ rstatus = "raised"
    /\ AllRaised
    /\ calls = 5
    /\ pauses = <<2, 4, 8, 16>>

(***************************************************************************)
(* C2: when the first k calls raise and call k+1 returns (k in 0..4), the  *)
(* helper has made exactly k+1 calls and k pauses, the i-th pause being    *)
(* min(2^i, 32), it makes no further call, and it returns what call k+1    *)
(* returned.                                                               *)
(***************************************************************************)
C2_ReturnsAfterFirstSuccess ==
    /\ rstatus = "returned" =>
         LET k == Len(outcomes) - 1
         IN  /\ k \in 0..4
             /\ \A i \in 1..k : outcomes[i].http = "raise"
             /\ outcomes[k + 1].http # "raise"
             /\ calls = k + 1
             /\ pauses = [i \in 1..k |-> IF 2^i <= 32 THEN 2^i ELSE 32]
             /\ result = outcomes[k + 1].ret
             /\ inflight = <<>>
    /\ (outcomes # <<>> /\ outcomes[Len(outcomes)].http # "raise") => rstatus = "returned"

C2_Witness ==
    /\ rstatus = "returned"
    /\ calls = 3
    /\ pauses = <<2, 4>>
    /\ outcomes[1].http = "raise"
    /\ outcomes[2].http = "raise"

(***************************************************************************)
(* C3: every upsert request goes to /blueprints/{B}/entities where B is    *)
(* the blueprint of the entity in its body.                                *)
(***************************************************************************)
C3_PathNamesBlueprint ==
    \A i \in 1..Len(sent) :
        IsUpsert(sent[i]) =>
            /\ sent[i].method = "POST"
            /\ sent[i].path = <<"blueprints", sent[i].body.blueprint, "entities">>

C5_ParserRecovers ==
    Did("parse") =>
        /\ error # "parse"
        /\ (file.kind # "json" \/ "queries" \notin file.keys) => results = <<>>
        /\ (file.kind = "json" /\ "queries" \in file.keys /\ FirstBad(file) > 0) =>
             /\ Len(results) = FirstBad(file) - 1
             /\ \A i \in 1..Len(results) : IsFindingOf(results[i], file.queries[i], repo_name)

C5_Witness ==
    /\ Did("parse")
    /\ file.kind = "json"
    /\ "queries" \in file.keys
    /\ FirstBad(file) = 2
    /\ Len(results) = 1
    /\ pc = "done"

(***************************************************************************)
(* C6 as claimed: once the run has ended, normally or by an error, every   *)
(* identifier in the relations of the service entity that was sent is the  *)
(* identifier of a finding for which an upsert request was issued.         *)
(***************************************************************************)
\* the remote service answered the service entity's request, so it received it
ServiceDelivered == svcOutcome \in {"ok", "err"}

RelationsIssued ==
    \A s \in ServiceRequests :
        ServiceDelivered =>
        \A k \in 1..Len(sent[s].body.relations.kicsScan) :
            \E f \in FindingRequests :
                sent[f].body.identifier = sent[s].body.relations.kicsScan[k]

C7_EveryFailureIsAnAttempt ==
    rstatus # "idle" =>
        /\ attempt = Cardinality({i \in 1..Len(outcomes) : outcomes[i].http \in {"err", "raise"}})
        /\ rstatus = "returned" => outcomes[Len(outcomes)].http = "ok"

(***************************************************************************)
(* C8 as claimed: the service entity is upserted exactly once, before any  *)
(* finding, and however that request ends the run goes on into the loop.   *)
(***************************************************************************)
ServiceOnceAndFirst ==
    /\ Cardinality(ServiceRequests) <= 1
    /\ \A f \in FindingRequests : \E s \in ServiceRequests : s < f
    /\ svcOutcome # "none" => Cardinality(ServiceRequests) = 1
    /\ Before("token_request", "service_request")

InFindingLoop ==
    \/ pc \in {"loop", "retry_while", "retry_wait", "retry_sleep", "done"}
    \/ pc = "error" /\ error = "retry"

C8_Original ==
    /\ ServiceOnceAndFirst
    /\ svcOutcome # "none" => InFindingLoop

(***************************************************************************)
(* C8 amended: the service entity is upserted exactly once, before any     *)
(* finding; when the request is answered, by a success or by an error      *)
(* response, the answer is ignored and the run goes on into the loop; when *)
(* the HTTP layer raises, the exception ends the run before any finding is *)
(* upserted.                                                               *)
(***************************************************************************)
C8_ServiceResponseIgnored ==
    /\ ServiceOnceAndFirst
    /\ svcOutcome \in {"ok", "err"} => InFindingLoop
    /\ svcOutcome = "raise" => (pc = "error" /\ error = "svc" /\ FindingRequests = {})

C8_Witness ==
    /\ svcOutcome = "err"
    /\ pc = "done"
    /\ FindingRequests # {}

(***************************************************************************)
(* C9: findings are upserted in report order, one request in flight at a   *)
(* time; a finding whose 5 attempts all fail ends the run with an error,   *)
(* and nothing is sent for the findings after it.                          *)
(***************************************************************************)
C9_InOrderAndFailFast ==
    /\ Len(inflight) <= 1
    /\ \A f \in FindingRequests :
         /\ sent[f].idx \in 1..Len(results)
         /\ sent[f].body = results[sent[f].idx]
         /\ sent[f].idx <= qi
         /\ \A i \in 1..sent[f].idx : \E g \in FindingRequests : g <= f /\ sent[g].idx = i
         /\ \A g \in FindingRequests : g <= f => sent[g].idx <= sent[f].idx
    /\ rstatus = "raised" =>
         /\ pc = "error"
         /\ error = "retry"
         /\ Cardinality({f \in FindingRequests : sent[f].idx = qi}) = 5

C9_Witness ==
    /\ rstatus = "raised"
    /\ qi = 1
    /\ Len(results) = 2
    /\ pc = "error"

(***************************************************************************)
(* C10 as claimed: the report is parsed and the service entity built       *)
(* before any HTTP request, the access-token request included.             *)
(***************************************************************************)
C10_Original ==
    /\ Before("parse", "build")
    /\ sent # <<>> => (Did("parse") /\ Did("build"))

(***************************************************************************)
(* C10 amended: the access-token request is sent first; then the report is *)
(* parsed and the service entity built, each once and in that order,       *)
(* before any upsert request is sent.                                      *)
(***************************************************************************)
C10_TokenThenParseThenBuildThenUpserts ==
    /\ Cardinality(Pos("token_request")) <= 1
    /\ Cardinality(Pos("parse")) <= 1
    /\ Cardinality(Pos("build")) <= 1
    /\ Before("token_request", "parse")
    /\ Before("parse", "build")
    /\ Before("build", "service_request")
    /\ Before("build", "finding_request")
    /\ sent # <<>> => sent[1].kind = "token"

C10_Witness ==
    /\ Did("token_request")
    /\ Did("parse")
    /\ Did("build")
    /\ Did("service_request")
    /\ Did("finding_request")

====
